---- MODULE Spec2Model ----
(***************************************************************************)
(* A model of the type-level DFA engine of src/main.cpp: Edge, Node, the   *)
(* transition resolver (Node::match_any, Node::next, TransitionFinder),    *)
(* the compile-time evaluator CTDFARunner and the run-time evaluator       *)
(* RTDFARunner / Node::dispatch.                                           *)
(*                                                                         *)
(* A Node type is a record [accept, edges]; an automaton is a function     *)
(* from node names to Node records; a char is its byte value.              *)
(***************************************************************************)
EXTENDS Integers, Sequences, FiniteSets, TLC

VARIABLES
    nodes,      \* the automaton: node name -> [accept, edges]
    input,      \* the string: the literal's characters / the std::string
    inst,       \* per Node type: "declared" | "ok" | "rejected" (its static_assert)
    ct,         \* cursor of CTDFARunner<CURRENT, S, INDEX>::run()
    rt,         \* cursor of RTDFARunner<CURRENT>::helper(input, index)
    probe,      \* last direct use of Node::match_any<c> / Node::next<c> / run
    evals       \* cursors of the run-time evaluations sharing the automaton

vars == <<nodes, input, inst, ct, rt, probe, evals>>

----------------------------------------------------------------------------
(* Bounds of the model *)

\* longest input string of the general specifications
MaxLen == 2

\* longest transition list of a generated Node
MaxEdges == 2

\* longest concatenation evaluated from an arbitrary state
MaxCatLen == 3

\* longest input string evaluated on the fixtures
MaxFixLen == 4

----------------------------------------------------------------------------
(* Characters *)

\* '\0', the byte CTDFARunner::run compares against
NUL == 0

\* '0'
Ch0 == 48

\* '1'
Ch1 == 49

\* 'x'
ChX == 120

Chars == {NUL, Ch0}

FixChars == {Ch0, Ch1, ChX}

NodeIds == {"Q0", "Q1"}

\* the start state every evaluation is instantiated with
Start == "Q0"

\* a type that is not a Node (the int of Edge<'a', int>)
NotNode == "int"

SeqsUpTo(S, n) == UNION {[1..k -> S] : k \in 0..n}

----------------------------------------------------------------------------
(* Edge, Node and the traits *)

\* Edge<C, NEXT_NODE>
Edge(C, NEXT_NODE) == [tag |-> "Edge", label |-> C, next |-> NEXT_NODE]

\* a template argument that is no Edge instantiation
NotEdge == [tag |-> "int"]

\* Edge::check(c)
check(e, c) == c = e.label

\* is_edge's primary template giving true: every type passes for an Edge
is_edge_v_Always(T) == TRUE

\* is_edge_v<T>
is_edge_v(T) == T.tag = "Edge"

\* Node<_accept, EDGES...>
Node(accept, EDGES) == [accept |-> accept, edges |-> EDGES]

\* (is_edge_v<EDGES> && ...), the condition of Node's static_assert
AllEdges(EDGES) == \A i \in DOMAIN EDGES : is_edge_v(EDGES[i])

\* no static_assert has failed: the translation unit still compiles
Compiles == \A q \in DOMAIN inst : inst[q] # "rejected"

\* Node q is instantiated and the program compiles: its members can be used
Usable(q) == Compiles /\ q \in DOMAIN nodes /\ inst[q] = "ok"

----------------------------------------------------------------------------
(* The transition resolver *)

\* match_any looking at the first Edge of the pack only
match_any_FirstOnly(EDGES, c) == EDGES # <<>> /\ check(Head(EDGES), c)

\* match_any without the existence check: every c passes
match_any_Always(EDGES, c) == TRUE

\* Node::match_any<c>: the fold (EDGES::check(c) || ...), false on an empty pack
RECURSIVE match_any(_, _)
match_any(EDGES, c) ==
    IF EDGES = <<>> THEN FALSE
    ELSE check(Head(EDGES), c) \/ match_any(Tail(EDGES), c)

\* TransitionFinder preferring REST's result: the last matching Edge wins
RECURSIVE TransitionFinder_Last(_, _, _)
TransitionFinder_Last(c, NODE, EDGES) ==
    IF EDGES = <<>> THEN NODE
    ELSE IF check(EDGES[Len(EDGES)], c) THEN EDGES[Len(EDGES)].next
    ELSE TransitionFinder_Last(c, NODE, SubSeq(EDGES, 1, Len(EDGES) - 1))

\* TransitionFinder<c, NODE, FIRST, REST...>::result, and <c, NODE>::result
RECURSIVE TransitionFinder(_, _, _)
TransitionFinder(c, NODE, EDGES) ==
    IF EDGES = <<>> THEN NODE
    ELSE IF check(Head(EDGES), c) THEN Head(EDGES).next
    ELSE TransitionFinder(c, NODE, Tail(EDGES))

\* Node::next handing TransitionFinder the start node instead of itself
next_WrongNode(q, c) == TransitionFinder(c, Start, nodes[q].edges)

\* Node::next<c>
next(q, c) == TransitionFinder(c, q, nodes[q].edges)

----------------------------------------------------------------------------
(* The compile-time evaluator *)

\* FixedString<N>::data: the N chars of the literal, its terminator included
FixedString(str) == str \o <<NUL>>

\* S.data[INDEX]
S_data(INDEX) == FixedString(input)[INDEX + 1]

\* CTDFARunner::run, first branch: c == '\0'
CTEnd ==
    /\ ct.pc = "run"
    /\ Usable(ct.node)
    /\ S_data(ct.index) = NUL
    /\ ct' = [ct EXCEPT !.pc = "done", !.result = nodes[ct.node].accept]
    /\ UNCHANGED <<nodes, input, inst, rt, probe, evals>>

\* CTDFARunner::run recursing with INDEX instead of INDEX + 1
CTAdvance_SameIndex ==
    /\ ct.pc = "run"
    /\ Usable(ct.node)
    /\ LET c == S_data(ct.index) IN
        /\ c # NUL
        /\ match_any(nodes[ct.node].edges, c)
        /\ ct' = [ct EXCEPT !.node = next(ct.node, c), !.steps = @ + 1]
    /\ UNCHANGED <<nodes, input, inst, rt, probe, evals>>

\* CTDFARunner::run testing match_any<c> before c == '\0'
CTAdvance_ThroughNUL ==
    /\ ct.pc = "run"
    /\ Usable(ct.node)
    /\ LET c == S_data(ct.index) IN
        /\ match_any(nodes[ct.node].edges, c)
        /\ ct' = [ct EXCEPT !.node = next(ct.node, c),
                            !.index = @ + 1,
                            !.steps = @ + 1]
    /\ UNCHANGED <<nodes, input, inst, rt, probe, evals>>

\* CTDFARunner::run, second branch: CURRENT::match_any<c>, recurse on next<c>
CTAdvance ==
    /\ ct.pc = "run"
    /\ Usable(ct.node)
    /\ LET c == S_data(ct.index) IN
        /\ c # NUL
        /\ match_any(nodes[ct.node].edges, c)
        /\ ct' = [ct EXCEPT !.node = next(ct.node, c),
                            !.index = @ + 1,
                            !.steps = @ + 1]
    /\ UNCHANGED <<nodes, input, inst, rt, probe, evals>>

\* CTDFARunner::run returning CURRENT::accept where no transition matches
CTReject_ReturnsAccept ==
    /\ ct.pc = "run"
    /\ Usable(ct.node)
    /\ LET c == S_data(ct.index) IN
        /\ c # NUL
        /\ ~match_any(nodes[ct.node].edges, c)
        /\ ct' = [ct EXCEPT !.pc = "done", !.result = nodes[ct.node].accept]
    /\ UNCHANGED <<nodes, input, inst, rt, probe, evals>>

\* CTDFARunner::run, last branch: return false
CTReject ==
    /\ ct.pc = "run"
    /\ Usable(ct.node)
    /\ LET c == S_data(ct.index) IN
        /\ c # NUL
        /\ ~match_any(nodes[ct.node].edges, c)
        /\ ct' = [ct EXCEPT !.pc = "done", !.result = FALSE]
    /\ UNCHANGED <<nodes, input, inst, rt, probe, evals>>

----------------------------------------------------------------------------
(* The run-time evaluator *)

\* no edge of the fold of Node::dispatch called helper
NoCall == "no_call"

\* the fold of Node::dispatch without the short circuit: every matching edge
\* calls helper and overwrites result, the last one wins
RECURSIVE dispatch_fold_NoShortCircuit(_, _)
dispatch_fold_NoShortCircuit(EDGES, c) ==
    IF EDGES = <<>> THEN NoCall
    ELSE IF check(EDGES[Len(EDGES)], c) THEN EDGES[Len(EDGES)].next
    ELSE dispatch_fold_NoShortCircuit(SubSeq(EDGES, 1, Len(EDGES) - 1), c)

\* the fold of Node::dispatch: the NEXT of the first edge whose check(c) holds
\* (the edge whose helper is called; || short-circuits after it), or NoCall
RECURSIVE dispatch_fold(_, _)
dispatch_fold(EDGES, c) ==
    IF EDGES = <<>> THEN NoCall
    ELSE IF check(Head(EDGES), c) THEN Head(EDGES).next
    ELSE dispatch_fold(Tail(EDGES), c)

\* the fold of Node::dispatch without the short circuit: helper is called for
\* every edge whose check(c) holds
RECURSIVE helper_calls_NoShortCircuit(_, _)
helper_calls_NoShortCircuit(EDGES, c) ==
    IF EDGES = <<>> THEN 0
    ELSE (IF check(Head(EDGES), c) THEN 1 ELSE 0)
            + helper_calls_NoShortCircuit(Tail(EDGES), c)

\* the fold of Node::dispatch: how many times it calls helper, that is how
\* many dispatch calls one dispatch call makes (|| stops at the first true)
RECURSIVE helper_calls(_, _)
helper_calls(EDGES, c) ==
    IF EDGES = <<>> THEN 0
    ELSE IF check(Head(EDGES), c) THEN 1
    ELSE helper_calls(Tail(EDGES), c)

\* Node::dispatch: if (index >= input.length()) return accept;
RTEnd ==
    /\ ct.pc = "done"
    /\ rt.pc = "run"
    /\ rt.index >= Len(input)
    /\ rt' = [rt EXCEPT !.pc = "done", !.result = nodes[rt.node].accept]
    /\ UNCHANGED <<nodes, input, inst, ct, probe, evals>>

\* Node::dispatch: an edge matches, result = RTDFARunner<NEXT>::helper(input, index + 1)
RTAdvance ==
    /\ ct.pc = "done"
    /\ rt.pc = "run"
    /\ rt.index < Len(input)
    /\ LET c == input[rt.index + 1]
           target == dispatch_fold(nodes[rt.node].edges, c) IN
        /\ target # NoCall
        /\ rt' = [rt EXCEPT !.node = target,
                            !.index = @ + 1,
                            !.steps = @ + helper_calls(nodes[rt.node].edges, c)]
    /\ UNCHANGED <<nodes, input, inst, ct, probe, evals>>

\* Node::dispatch: no edge matches, result stays false
RTReject ==
    /\ ct.pc = "done"
    /\ rt.pc = "run"
    /\ rt.index < Len(input)
    /\ LET c == input[rt.index + 1] IN
        /\ dispatch_fold(nodes[rt.node].edges, c) = NoCall
        /\ rt' = [rt EXCEPT !.pc = "done", !.result = FALSE]
    /\ UNCHANGED <<nodes, input, inst, ct, probe, evals>>

----------------------------------------------------------------------------
(* Initial states and specifications *)

\* CTDFARunner<Start, S, 0> and RTDFARunner<Start>::run(input) = helper(input, 0)
Cursor0 == [node |-> Start, index |-> 0, pc |-> "run", result |-> FALSE, steps |-> 1]

NoProbe == [op |-> "none"]

Edges == {Edge(c, n) : c \in Chars, n \in NodeIds}

Automata == [NodeIds -> {Node(a, es) : a \in BOOLEAN, es \in SeqsUpTo(Edges, MaxEdges)}]

Init ==
    /\ nodes \in Automata
    /\ input \in SeqsUpTo(Chars, MaxLen)
    /\ inst = [q \in DOMAIN nodes |-> "ok"]
    /\ ct = Cursor0
    /\ rt = Cursor0
    /\ probe = NoProbe
    /\ evals = <<>>

\* the fixtures of src/main.cpp
TEST_MATCH_ANY ==
    ("Q0" :> Node(FALSE, <<Edge(Ch0, "Q1")>>)) @@
    ("Q1" :> Node(TRUE, <<>>))

TEST_TRANSITION ==
    ("Q0" :> Node(TRUE, <<Edge(Ch0, "Q1")>>)) @@
    ("Q1" :> Node(FALSE, <<Edge(Ch1, "Q2")>>)) @@
    ("Q2" :> Node(FALSE, <<Edge(Ch0, "Q3")>>)) @@
    ("Q3" :> Node(TRUE, <<Edge(Ch1, "Q2")>>))

\* {01}* with the accept flags of TEST_TRANSITION
DFA_01_STAR_Typo ==
    ("Q0" :> Node(TRUE, <<Edge(Ch0, "Q1")>>)) @@
    ("Q1" :> Node(FALSE, <<Edge(Ch1, "Q2")>>)) @@
    ("Q2" :> Node(FALSE, <<Edge(Ch0, "Q3")>>)) @@
    ("Q3" :> Node(TRUE, <<Edge(Ch1, "Q2")>>))

DFA_01_STAR ==
    ("Q0" :> Node(TRUE, <<Edge(Ch0, "Q1")>>)) @@
    ("Q1" :> Node(FALSE, <<Edge(Ch1, "Q2")>>)) @@
    ("Q2" :> Node(TRUE, <<Edge(Ch0, "Q3")>>)) @@
    ("Q3" :> Node(FALSE, <<Edge(Ch1, "Q2")>>))

DFA_BRANCH ==
    ("Q0" :> Node(FALSE, <<Edge(Ch0, "Q1"), Edge(Ch1, "Q2")>>)) @@
    ("Q1" :> Node(TRUE, <<>>)) @@
    ("Q2" :> Node(TRUE, <<>>))

\* the fixtures evaluated on every string over {'0', '1', 'x'}
InitFixture ==
    /\ nodes \in {DFA_01_STAR, DFA_BRANCH}
    /\ input \in SeqsUpTo(FixChars, MaxFixLen)
    /\ inst = [q \in DOMAIN nodes |-> "ok"]
    /\ ct = Cursor0
    /\ rt = Cursor0
    /\ probe = NoProbe
    /\ evals = <<>>

Next ==
    \/ CTEnd
    \/ CTAdvance
    \/ CTReject
    \/ RTEnd
    \/ RTAdvance
    \/ RTReject

Spec == Init /\ [][Next]_vars

\* the evaluators are synchronous calls: a started evaluation keeps running
FairSpec == Init /\ [][Next]_vars /\ WF_vars(Next)

SpecFixture == InitFixture /\ [][Next]_vars

----------------------------------------------------------------------------
(* Direct uses of the resolver, as in TEST_MATCH_ANY and TEST_TRANSITION *)

ProbeChars == Chars \cup FixChars

\* Q::match_any<c> used on its own (static_assert(Q0::match_any<'0'>))
ApplyMatchAny ==
    /\ \E q \in DOMAIN nodes, c \in ProbeChars :
        /\ Usable(q)
        /\ probe' = [op |-> "match_any", node |-> q, c |-> c,
                     result |-> match_any(nodes[q].edges, c)]
    /\ UNCHANGED <<nodes, input, inst, ct, rt, evals>>

\* Q::next<c> used on its own (std::is_same_v<Q0::next<'0'>, Q1>)
ApplyNext ==
    /\ \E q \in DOMAIN nodes, c \in ProbeChars :
        /\ Usable(q)
        /\ probe' = [op |-> "next", node |-> q, c |-> c, result |-> next(q, c)]
    /\ UNCHANGED <<nodes, input, inst, ct, rt, evals>>

InitResolver ==
    /\ nodes \in Automata \cup {TEST_MATCH_ANY, TEST_TRANSITION}
    /\ input = <<>>
    /\ inst = [q \in DOMAIN nodes |-> "ok"]
    /\ ct = Cursor0
    /\ rt = Cursor0
    /\ probe = NoProbe
    /\ evals = <<>>

NextResolver ==
    \/ ApplyMatchAny
    \/ ApplyNext

SpecResolver == InitResolver /\ [][NextResolver]_vars

----------------------------------------------------------------------------
(* The run-time evaluator as a function, run from any state *)

\* Node::dispatch(input, index) of state q, through RTDFARunner<NEXT>::helper
RECURSIVE dispatch(_, _, _)
dispatch(q, str, index) ==
    IF index >= Len(str) THEN nodes[q].accept
    ELSE LET target == dispatch_fold(nodes[q].edges, str[index + 1]) IN
        IF target = NoCall THEN FALSE ELSE dispatch(target, str, index + 1)

\* RTDFARunner<q>::run(input)
run(q, str) == dispatch(q, str, 0)

\* the call RTDFARunner<q>::run(str) for some state q and string str
ApplyRun ==
    /\ probe = NoProbe
    /\ \E q \in DOMAIN nodes, str \in SeqsUpTo(Chars, MaxCatLen) :
        /\ Usable(q)
        /\ probe' = [op |-> "run", node |-> q, str |-> str, result |-> run(q, str)]
    /\ UNCHANGED <<nodes, input, inst, ct, rt, evals>>

InitRun ==
    /\ nodes \in Automata
    /\ input = <<>>
    /\ inst = [q \in DOMAIN nodes |-> "ok"]
    /\ ct = Cursor0
    /\ rt = Cursor0
    /\ probe = NoProbe
    /\ evals = <<>>

NextRun == ApplyRun

SpecRun == InitRun /\ [][NextRun]_vars

----------------------------------------------------------------------------
(* Several run-time evaluations of independent strings on one automaton *)

EvalIds == {1, 2}

\* generated automata of the shared evaluations: every edge is labelled '0'
SharedEdges == {Edge(Ch0, n) : n \in NodeIds}

SharedAutomata ==
    [NodeIds -> {Node(a, es) : a \in BOOLEAN, es \in SeqsUpTo(SharedEdges, MaxEdges)}]

\* RTDFARunner<Start>::run(str) = helper(str, 0), called by evaluation i
EvalCursor0(str) ==
    [input |-> str, node |-> Start, index |-> 0, pc |-> "run",
     result |-> FALSE, steps |-> 1]

\* Node::dispatch of evaluation i: if (index >= input.length()) return accept;
EvalEnd ==
    /\ \E i \in DOMAIN evals :
        /\ evals[i].pc = "run"
        /\ evals[i].index >= Len(evals[i].input)
        /\ evals' = [evals EXCEPT ![i].pc = "done",
                                  ![i].result = nodes[evals[i].node].accept]
    /\ UNCHANGED <<nodes, input, inst, ct, rt, probe>>

\* Node::dispatch keeping index in a static: an advance moves every cursor
EvalAdvance_SharedIndex ==
    /\ \E i \in DOMAIN evals :
        /\ evals[i].pc = "run"
        /\ evals[i].index < Len(evals[i].input)
        /\ LET c == evals[i].input[evals[i].index + 1]
               target == dispatch_fold(nodes[evals[i].node].edges, c) IN
            /\ target # NoCall
            /\ evals' = [j \in DOMAIN evals |->
                            IF j = i
                            THEN [evals[j] EXCEPT !.node = target,
                                                  !.index = @ + 1,
                                                  !.steps = @ + 1]
                            ELSE [evals[j] EXCEPT !.index = evals[i].index + 1]]
    /\ UNCHANGED <<nodes, input, inst, ct, rt, probe>>

\* Node::dispatch of evaluation i: an edge matches, helper(input, index + 1)
EvalAdvance ==
    /\ \E i \in DOMAIN evals :
        /\ evals[i].pc = "run"
        /\ evals[i].index < Len(evals[i].input)
        /\ LET c == evals[i].input[evals[i].index + 1]
               target == dispatch_fold(nodes[evals[i].node].edges, c) IN
            /\ target # NoCall
            /\ evals' = [evals EXCEPT
                            ![i].node = target,
                            ![i].index = @ + 1,
                            ![i].steps = @ + helper_calls(nodes[evals[i].node].edges, c)]
    /\ UNCHANGED <<nodes, input, inst, ct, rt, probe>>

\* Node::dispatch with a static result: where no edge matches it returns
\* what the last finished evaluation left in result
EvalReject_StaticResult ==
    /\ \E i \in DOMAIN evals :
        /\ evals[i].pc = "run"
        /\ evals[i].index < Len(evals[i].input)
        /\ LET c == evals[i].input[evals[i].index + 1] IN
            /\ dispatch_fold(nodes[evals[i].node].edges, c) = NoCall
            /\ evals' = [evals EXCEPT
                            ![i].pc = "done",
                            ![i].result = \E j \in DOMAIN evals :
                                            evals[j].pc = "done" /\ evals[j].result]
    /\ UNCHANGED <<nodes, input, inst, ct, rt, probe>>

\* Node::dispatch of evaluation i: no edge matches, result stays false
EvalReject ==
    /\ \E i \in DOMAIN evals :
        /\ evals[i].pc = "run"
        /\ evals[i].index < Len(evals[i].input)
        /\ LET c == evals[i].input[evals[i].index + 1] IN
            /\ dispatch_fold(nodes[evals[i].node].edges, c) = NoCall
            /\ evals' = [evals EXCEPT ![i].pc = "done", ![i].result = FALSE]
    /\ UNCHANGED <<nodes, input, inst, ct, rt, probe>>

InitShared ==
    /\ nodes \in SharedAutomata
    /\ input = <<>>
    /\ inst = [q \in DOMAIN nodes |-> "ok"]
    /\ ct = Cursor0
    /\ rt = Cursor0
    /\ probe = NoProbe
    /\ evals \in [EvalIds -> {EvalCursor0(str) : str \in SeqsUpTo(Chars, MaxLen)}]

NextShared ==
    \/ EvalEnd
    \/ EvalAdvance
    \/ EvalReject

SpecShared == InitShared /\ [][NextShared]_vars

----------------------------------------------------------------------------
(* Definition of the Node types, then compile-time evaluation *)

\* template arguments a Node may be given: Edges to a Node, Edges to a type
\* that is no Node, and a type that is no Edge
DefElements == {Edge(Ch0, n) : n \in NodeIds \cup {NotNode}} \cup {NotEdge}

DefAutomata ==
    [NodeIds -> {Node(a, es) : a \in BOOLEAN, es \in SeqsUpTo(DefElements, MaxEdges)}]

\* Node<_accept, EDGES...> is instantiated (as the base of struct Q, or at the
\* first use of a member of an alias) and its static_assert holds
DefineNode ==
    /\ Compiles
    /\ \E q \in DOMAIN nodes :
        /\ inst[q] = "declared"
        /\ AllEdges(nodes[q].edges)
        /\ inst' = [inst EXCEPT ![q] = "ok"]
    /\ UNCHANGED <<nodes, input, ct, rt, probe, evals>>

\* Node is instantiated and its static_assert fails: the program is rejected
RejectNode ==
    /\ Compiles
    /\ \E q \in DOMAIN nodes :
        /\ inst[q] = "declared"
        /\ ~AllEdges(nodes[q].edges)
        /\ inst' = [inst EXCEPT ![q] = "rejected"]
    /\ UNCHANGED <<nodes, input, ct, rt, probe, evals>>

\* CTDFARunner<CURRENT, S, INDEX>::run() with CURRENT no Node: CURRENT::accept
\* and CURRENT::match_any do not exist, the instantiation is ill-formed
CTIllFormed ==
    /\ Compiles
    /\ ct.pc = "run"
    /\ ct.node \notin DOMAIN nodes
    /\ ct' = [ct EXCEPT !.pc = "ill_formed"]
    /\ UNCHANGED <<nodes, input, inst, rt, probe, evals>>

InitDef ==
    /\ nodes \in DefAutomata
    /\ input \in SeqsUpTo({Ch0}, MaxLen)
    /\ inst = [q \in DOMAIN nodes |-> "declared"]
    /\ ct = Cursor0
    /\ rt = Cursor0
    /\ probe = NoProbe
    /\ evals = <<>>

NextDef ==
    \/ DefineNode
    \/ RejectNode
    \/ CTEnd
    \/ CTAdvance
    \/ CTReject
    \/ CTIllFormed

SpecDef == InitDef /\ [][NextDef]_vars

----------------------------------------------------------------------------
(* The reference run: first-match transitions, written without the code's  *)
(* folds, for the properties below                                         *)

HasLabel(q, c) == \E i \in DOMAIN nodes[q].edges : nodes[q].edges[i].label = c

FirstIndex(q, c) ==
    CHOOSE i \in DOMAIN nodes[q].edges :
        /\ nodes[q].edges[i].label = c
        /\ \A j \in 1..(i - 1) : nodes[q].edges[j].label # c

FirstDest(q, c) == nodes[q].edges[FirstIndex(q, c)].next

Dead == "dead"

Delta(q, c) == IF q = Dead \/ ~HasLabel(q, c) THEN Dead ELSE FirstDest(q, c)

RECURSIVE RefState(_, _)
RefState(q, s) == IF s = <<>> THEN q ELSE RefState(Delta(q, Head(s)), Tail(s))

RefVerdict(q, s) == LET r == RefState(q, s) IN r # Dead /\ nodes[r].accept

NoDuplicateLabels ==
    \A q \in DOMAIN nodes : \A i, j \in DOMAIN nodes[q].edges :
        i # j => nodes[q].edges[i].label # nodes[q].edges[j].label

HasDuplicate(q, c) ==
    \E i, j \in DOMAIN nodes[q].edges :
        /\ i # j
        /\ nodes[q].edges[i].label = c
        /\ nodes[q].edges[j].label = c
        /\ nodes[q].edges[i].next # nodes[q].edges[j].next

BothDone == ct.pc = "done" /\ rt.pc = "done"

----------------------------------------------------------------------------
(* Properties *)

\* C1: on an automaton without duplicate labels on a state, for every string
\* (zero bytes included), the static and the dynamic evaluator return the
\* same verdict.
C1_Agreement ==
    (BothDone /\ NoDuplicateLabels) => ct.result = rt.result

\* C2: on a state with two transitions labelled c to different destinations,
\* the resolver, the static evaluator and the dynamic evaluator all take the
\* destination of the earliest-declared transition labelled c.
C2_FirstMatchPriority ==
    /\ [](\A q \in DOMAIN nodes : \A c \in Chars :
            HasDuplicate(q, c) => next(q, c) = FirstDest(q, c))
    /\ [][(ct'.index = ct.index + 1 /\ HasDuplicate(ct.node, S_data(ct.index)))
            => ct'.node = FirstDest(ct.node, S_data(ct.index))]_vars
    /\ [][(rt'.index = rt.index + 1 /\ HasDuplicate(rt.node, input[rt.index + 1]))
            => rt'.node = FirstDest(rt.node, input[rt.index + 1])]_vars

C2_Witness ==
    /\ BothDone
    /\ Len(input) >= 1
    /\ input[1] # NUL
    /\ HasDuplicate(Start, input[1])
    /\ ct.index >= 1
    /\ rt.index >= 1

\* C3: both evaluators halt with a boolean verdict on every automaton and
\* string; the position never exceeds the string length and grows by one at
\* every step that continues the evaluation.
C3_Termination ==
    /\ <>(BothDone /\ ct.result \in BOOLEAN /\ rt.result \in BOOLEAN)
    /\ [](ct.index <= Len(input) /\ rt.index <= Len(input))
    /\ [][/\ (ct' # ct /\ ct'.pc = "run") => ct'.index = ct.index + 1
          /\ (rt' # rt /\ rt'.pc = "run") => rt'.index = rt.index + 1
          /\ (ct' # ct /\ ct'.pc = "done") => ct'.index = ct.index
          /\ (rt' # rt /\ rt'.pc = "done") => rt'.index = rt.index]_vars

C3_Witness ==
    /\ BothDone
    /\ Len(input) >= 2
    /\ input[1] = input[2]
    /\ HasLabel(Start, input[1])
    /\ FirstDest(Start, input[1]) = Start
    /\ ct.index = Len(input)
    /\ rt.index = Len(input)

\* C4: the static evaluator returns the accept flag only at position =
\* length of s, and its verdict is the reference run's: the accept flag of
\* the state reached after all characters, false if a character has no match.
C4_StaticVerdict ==
    ct.pc = "done" =>
        /\ ct.result = RefVerdict(Start, input)
        /\ ct.result => ct.index = Len(input)

\* C5: the dynamic evaluator stays on the reference run, returns the accept
\* flag only at position = length of s, and its verdict is the reference
\* run's.
C5_DynamicVerdict ==
    /\ rt.pc = "run" => rt.node = RefState(Start, SubSeq(input, 1, rt.index))
    /\ rt.pc = "done" =>
        /\ rt.result = RefVerdict(Start, input)
        /\ rt.result => rt.index = Len(input)

C5_Witness ==
    /\ rt.pc = "done"
    /\ rt.result
    /\ Len(input) >= 2
    /\ HasDuplicate(Start, input[1])

EvaluationStarted == ct # Cursor0

NodeHasNonEdge(q) == \E i \in DOMAIN nodes[q].edges : nodes[q].edges[i].tag # "Edge"

NodeHasNonNodeDestination(q) ==
    \E i \in DOMAIN nodes[q].edges :
        /\ nodes[q].edges[i].tag = "Edge"
        /\ nodes[q].edges[i].next \notin DOMAIN nodes

\* the automaton: the states reachable from the start state
EdgeDestinations(q) ==
    {nodes[q].edges[i].next :
        i \in {k \in DOMAIN nodes[q].edges : nodes[q].edges[k].tag = "Edge"}}

RECURSIVE ReachFrom(_)
ReachFrom(S) ==
    LET T == S \cup UNION {EdgeDestinations(q) : q \in S \cap DOMAIN nodes}
    IN IF T = S THEN S ELSE ReachFrom(T)

AutomatonStates == ReachFrom({Start}) \cap DOMAIN nodes

IsRep01(s) ==
    /\ Len(s) % 2 = 0
    /\ \A i \in DOMAIN s : s[i] = IF i % 2 = 1 THEN Ch0 ELSE Ch1

\* C8: on the {01}* fixture both evaluators accept exactly the strings that
\* are k repetitions of "01", k >= 0.
C8_Rep01 ==
    nodes = DFA_01_STAR =>
        /\ ct.pc = "done" => (ct.result <=> IsRep01(input))
        /\ rt.pc = "done" => (rt.result <=> IsRep01(input))

C8_Witness ==
    /\ nodes = DFA_01_STAR
    /\ BothDone
    /\ input = <<Ch0, Ch1, Ch0, Ch1>>
    /\ ct.result
    /\ rt.result

\* C9: on the branching fixture both evaluators accept exactly "0" and "1".
C9_Branch ==
    nodes = DFA_BRANCH =>
        /\ ct.pc = "done" => (ct.result <=> input \in {<<Ch0>>, <<Ch1>>})
        /\ rt.pc = "done" => (rt.result <=> input \in {<<Ch0>>, <<Ch1>>})

C9_Witness ==
    /\ nodes = DFA_BRANCH
    /\ BothDone
    /\ input = <<Ch1>>
    /\ ct.result
    /\ rt.result

\* C10: match_any<c> is true exactly when some transition of the state has
\* label c, and false for every c on an empty transition list.
C10_MatchAny ==
    probe.op = "match_any" =>
        /\ probe.result <=> HasLabel(probe.node, probe.c)
        /\ nodes[probe.node].edges = <<>> => ~probe.result

C10_Witness ==
    /\ probe.op = "match_any"
    /\ probe.result
    /\ nodes[probe.node].edges[1].label # probe.c

\* C11: a string of length N takes at most N + 1 evaluation steps in either
\* evaluator (run() instantiations, dispatch calls), one per position: each
\* step follows at most one transition, duplicate labels or not.
C11_StepBound ==
    /\ ct.steps <= Len(input) + 1
    /\ rt.steps <= Len(input) + 1
    /\ ct.steps = ct.index + 1
    /\ rt.steps = rt.index + 1

C11_Witness ==
    /\ BothDone
    /\ Len(input) >= 2
    /\ HasDuplicate(Start, input[1])
    /\ ct.steps = Len(input) + 1
    /\ rt.steps = Len(input) + 1

C15_ImmediateReject ==
    [][/\ (/\ ct.pc = "run" /\ ct' # ct
           /\ ct.index < Len(input)
           /\ ~HasLabel(ct.node, input[ct.index + 1]))
          => (ct'.pc = "done" /\ ~ct'.result
                /\ ct'.index = ct.index /\ ct'.node = ct.node)
       /\ (/\ rt.pc = "run" /\ rt' # rt
           /\ rt.index < Len(input)
           /\ ~HasLabel(rt.node, input[rt.index + 1]))
          => (rt'.pc = "done" /\ ~rt'.result
                /\ rt'.index = rt.index /\ rt'.node = rt.node)]_vars

NoZeroByte(s) == \A i \in DOMAIN s : s[i] # NUL

\* C16: on every automaton, duplicate labels included, and every string
\* without a zero byte, the static and the dynamic evaluator end in the same
\* state at the same position with the same verdict.
C16_AgreementWithDuplicates ==
    (BothDone /\ NoZeroByte(input)) =>
        /\ ct.result = rt.result
        /\ ct.node = rt.node
        /\ ct.index = rt.index

C16_Witness ==
    /\ BothDone
    /\ NoZeroByte(input)
    /\ Len(input) >= 2
    /\ HasDuplicate(Start, input[1])
    /\ ct.result

\* position of the first zero byte of s, Len(s) if it has none
ZeroPos(s) ==
    IF NoZeroByte(s) THEN Len(s)
    ELSE (CHOOSE i \in DOMAIN s : s[i] = NUL /\ \A j \in 1..(i - 1) : s[j] # NUL) - 1

\* C17: the static evaluator never passes the first zero byte, at position k,
\* and its verdict is the reference verdict of the prefix of length k; the
\* dynamic evaluator consumes all of s, a zero byte being an ordinary label.
C17_ZeroByteEnd ==
    /\ ct.index <= ZeroPos(input)
    /\ ct.pc = "done" =>
        ct.result = RefVerdict(Start, SubSeq(input, 1, ZeroPos(input)))
    /\ rt.pc = "done" =>
        /\ rt.result = RefVerdict(Start, input)
        /\ rt.result => rt.index = Len(input)

C17_Witness ==
    /\ BothDone
    /\ Len(input) = 2
    /\ input[1] # NUL
    /\ input[2] = NUL
    /\ ct.index = 1
    /\ rt.index = 2
    /\ ct.result # rt.result

\* C18: for the dynamic evaluator, a state q and a string s t: if s leads
\* from q to q' by first-match transitions, the verdict of s t from q is the
\* verdict of t from q'; if s hits a character without a matching
\* transition, s t is rejected from q.
C18_Concatenation ==
    probe.op = "run" =>
        \A k \in 0..Len(probe.str) :
            LET s == SubSeq(probe.str, 1, k)
                u == SubSeq(probe.str, k + 1, Len(probe.str))
                q1 == RefState(probe.node, s)
            IN IF q1 = Dead THEN ~probe.result
               ELSE probe.result = run(q1, u)

C18_Witness ==
    /\ probe.op = "run"
    /\ probe.node # Start
    /\ Len(probe.str) = 3
    /\ probe.result
    /\ HasDuplicate(probe.node, probe.str[1])
    /\ RefState(probe.node, SubSeq(probe.str, 1, 2)) # probe.node

\* C12: the verdict of a dynamic evaluation is a function of the automaton,
\* the start state and the string only: whatever the other evaluation does
\* before or between its steps, it ends with run(Start, input), so two
\* evaluations of the same string return the same verdict.
C12_Determinism ==
    /\ \A i \in DOMAIN evals :
        evals[i].pc = "done" => evals[i].result = run(Start, evals[i].input)
    /\ \A i, j \in DOMAIN evals :
        (/\ evals[i].pc = "done"
         /\ evals[j].pc = "done"
         /\ evals[i].input = evals[j].input)
            => evals[i].result = evals[j].result

C12_Witness ==
    /\ evals[1].pc = "done"
    /\ evals[2].pc = "done"
    /\ evals[1].input # evals[2].input
    /\ Len(evals[1].input) >= 1
    /\ Len(evals[2].input) >= 1
    /\ evals[1].result
    /\ ~evals[2].result

\* C13: a step of one dynamic evaluation changes neither the automaton nor
\* the cursor of another evaluation, and every evaluation is where it is
\* when run alone: at the state its own consumed prefix leads to, with the
\* verdict of its own string once it has returned.
C13_Sharing ==
    /\ [][/\ nodes' = nodes
          /\ \A i, j \in DOMAIN evals :
                (i # j /\ evals'[i] # evals[i]) => evals'[j] = evals[j]]_vars
    /\ [](\A i \in DOMAIN evals :
            /\ evals[i].pc = "run" =>
                /\ evals[i].index <= Len(evals[i].input)
                /\ evals[i].node =
                    RefState(Start, SubSeq(evals[i].input, 1, evals[i].index))
            /\ evals[i].pc = "done" =>
                evals[i].result = RefVerdict(Start, evals[i].input))

C13_Witness ==
    /\ evals[1].pc = "run"
    /\ evals[2].pc = "run"
    /\ evals[1].index = 1
    /\ evals[2].index = 1
    /\ evals[1].input # evals[2].input
    /\ evals[1].node # Start

====
